---- MODULE Spec2Model ----
(***************************************************************************)
(* The remediation control loop of backend/src/server.ts, with the policy  *)
(* engine of backend/src/policy.ts and the service registry of             *)
(* backend/src/registry.ts.                                                *)
(*                                                                         *)
(* One action per HTTP handler / tool handler.  A handler that awaits a    *)
(* fetch() to the registered service is two actions: the part up to the    *)
(* await (which leaves a record in inflight) and the continuation that     *)
(* runs when the reply arrives.  Handlers that never await a network call  *)
(* run to completion in one event-loop turn and are one action.            *)
(*                                                                         *)
(* Numbers.  A request's "replicas" is any JS number: it is modelled as a  *)
(* record [kind, twice] where kind is "fin", "nan", "posinf" or "neginf"   *)
(* and twice is two times the value (so that x.5 is representable).        *)
(* Times are Date.now() readings of a logical clock that starts at 1;      *)
(* null is 0 (every nullable of the source holds a truthy value or null).  *)
(* "INC-<ms>" is modelled by <ms>.                                         *)
(***************************************************************************)
EXTENDS Integers, Sequences, FiniteSets, TLC

VARIABLES
    systemStatus,      \* server.ts:16
    activeReplicas,    \* server.ts:17
    lastAlertTime,     \* server.ts:18
    autoPilotMode,     \* server.ts:19
    currentLoad,       \* server.ts:20
    incidentCount,     \* server.ts:21
    pendingApprovals,  \* server.ts:37   id -> details.replicas
    incidentReports,   \* server.ts:48
    activeIncidentId,  \* server.ts:49
    services,          \* registry.ts:33 state.services
    activeServiceId,   \* registry.ts:33 state.activeServiceId
    timers,            \* setTimeout callbacks queued at server.ts:499
    inflight,          \* handlers suspended at an await fetch(...)
    now,               \* Date.now()
    last,              \* what the most recent handler returned
    recovered          \* history: a monitor evaluation has yielded HEALTHY and
                       \* health has not become CRITICAL since

vars == <<systemStatus, activeReplicas, lastAlertTime, autoPilotMode, currentLoad,
          incidentCount, pendingApprovals, incidentReports, activeIncidentId,
          services, activeServiceId, timers, inflight, now, last, recovered>>

ctl == <<systemStatus, activeReplicas, lastAlertTime, currentLoad, incidentCount,
         incidentReports, activeIncidentId>>

----------------------------------------------------------------------------
(* Bounds of the model *)

MaxTime == 2
MaxIncidents == 3
MaxPending == 1
MaxReports == 2
MaxInFlight == 1
MaxServices == 3
MaxTimers == 1
MaxTarget == 15

(* Program constants *)

null == 0
CAPACITY_PER_REPLICA == 200
PolicyMaxReplicas == 10
BaselineReplicas == 3
NormalLoad == 100
CriticalCpu == 90

----------------------------------------------------------------------------
(* JS numbers *)

Fin(n) == [kind |-> "fin", twice |-> 2 * n]
Half(n) == [kind |-> "fin", twice |-> 2 * n + 1]
NaN == [kind |-> "nan", twice |-> 0]
PosInf == [kind |-> "posinf", twice |-> 0]
NegInf == [kind |-> "neginf", twice |-> 0]

isFinite(x) == x.kind = "fin"
isInteger(x) == x.kind = "fin" /\ x.twice % 2 = 0
IntOf(x) == x.twice \div 2

Max(a, b) == IF a >= b THEN a ELSE b
Min(a, b) == IF a <= b THEN a ELSE b

----------------------------------------------------------------------------
(* policy.ts *)

Deny(reason, replicas) ==
    [allowed |-> FALSE, approvalRequired |-> FALSE, reason |-> reason,
     log |-> {[level |-> "POLICY_VIOLATION", reason |-> reason, args |-> replicas]}]

validateScale_AllowsZero(replicas) ==
    IF ~isFinite(replicas) THEN Deny("Replicas must be a finite number", replicas)
    ELSE IF ~isInteger(replicas) THEN Deny("Replicas must be a whole number", replicas)
    ELSE IF replicas.twice < 0 THEN Deny("Replicas cannot be negative", replicas)
    ELSE IF IntOf(replicas) > PolicyMaxReplicas
    THEN [allowed |-> FALSE, approvalRequired |-> TRUE,
          reason |-> "Policy Warning: High scale (>10) requires manual approval",
          log |-> {}]
    ELSE [allowed |-> TRUE, approvalRequired |-> FALSE, reason |-> "", log |-> {}]

validateScale_NoGuardrail(replicas) ==
    IF ~isFinite(replicas) THEN Deny("Replicas must be a finite number", replicas)
    ELSE IF ~isInteger(replicas) THEN Deny("Replicas must be a whole number", replicas)
    ELSE IF replicas.twice < 0 THEN Deny("Replicas cannot be negative", replicas)
    ELSE IF replicas.twice = 0
    THEN Deny("Cannot scale to zero replicas (would cause downtime)", replicas)
    ELSE [allowed |-> TRUE, approvalRequired |-> FALSE, reason |-> "", log |-> {}]

validateScale_OffByOne(replicas) ==
    IF ~isFinite(replicas) THEN Deny("Replicas must be a finite number", replicas)
    ELSE IF ~isInteger(replicas) THEN Deny("Replicas must be a whole number", replicas)
    ELSE IF replicas.twice < 0 THEN Deny("Replicas cannot be negative", replicas)
    ELSE IF replicas.twice = 0
    THEN Deny("Cannot scale to zero replicas (would cause downtime)", replicas)
    ELSE IF IntOf(replicas) >= PolicyMaxReplicas
    THEN [allowed |-> FALSE, approvalRequired |-> TRUE,
          reason |-> "Policy Warning: High scale (>10) requires manual approval",
          log |-> {}]
    ELSE [allowed |-> TRUE, approvalRequired |-> FALSE, reason |-> "", log |-> {}]

\* policy.validateScale: the checks in the order of the source; the first that
\* fails decides.  A denial logs a POLICY_VIOLATION carrying reason and args;
\* the >10 guardrail and the pass log nothing of that level.
validateScale(replicas) ==
    IF ~isFinite(replicas) THEN Deny("Replicas must be a finite number", replicas)
    ELSE IF ~isInteger(replicas) THEN Deny("Replicas must be a whole number", replicas)
    ELSE IF replicas.twice < 0 THEN Deny("Replicas cannot be negative", replicas)
    ELSE IF replicas.twice = 0
    THEN Deny("Cannot scale to zero replicas (would cause downtime)", replicas)
    ELSE IF IntOf(replicas) > PolicyMaxReplicas
    THEN [allowed |-> FALSE, approvalRequired |-> TRUE,
          reason |-> "Policy Warning: High scale (>10) requires manual approval",
          log |-> {}]
    ELSE [allowed |-> TRUE, approvalRequired |-> FALSE, reason |-> "", log |-> {}]

----------------------------------------------------------------------------
(* registry.ts *)

\* Array.prototype.find over state.services: the index of the first service
\* with this id, 0 when there is none.
FindService(id) ==
    IF \E i \in 1..Len(services) : services[i].id = id
    THEN CHOOSE i \in 1..Len(services) :
            /\ services[i].id = id
            /\ \A j \in 1..(i - 1) : services[j].id # id
    ELSE 0

\* registry.getActiveService: the index of the active service, 0 for null.
getActiveService ==
    IF activeServiceId = null THEN 0 ELSE FindService(activeServiceId)

registerService ==
    /\ Len(services) < MaxServices
    /\ services' = Append(services, [id |-> now, status |-> "pending"])
    /\ UNCHANGED activeServiceId

approveService(id) ==
    LET i == FindService(id) IN
    /\ i # 0
    /\ LET after == [services EXCEPT ![i].status = "approved"]
           approvedCount == Cardinality({j \in 1..Len(after) : after[j].status = "approved"})
       IN /\ services' = after
          /\ activeServiceId' = IF approvedCount = 1 THEN id ELSE activeServiceId

rejectService_KeepsActive(id) ==
    LET i == FindService(id) IN
    /\ i # 0
    /\ services' = [services EXCEPT ![i].status = "rejected"]
    /\ UNCHANGED activeServiceId

rejectService(id) ==
    LET i == FindService(id) IN
    /\ i # 0
    /\ services' = [services EXCEPT ![i].status = "rejected"]
    /\ activeServiceId' = IF activeServiceId = id THEN null ELSE activeServiceId

activateService(id) ==
    LET i == FindService(id) IN
    /\ i # 0
    /\ services[i].status = "approved"
    /\ activeServiceId' = id
    /\ UNCHANGED services

----------------------------------------------------------------------------
(* Load / capacity model *)

\* Math.round(a / b) for b > 0: the nearest integer, halves rounded up.
Round(a, b) == (2 * a + b) \div (2 * b)

\* Math.min(100, Math.round((currentLoad / (replicas * CAPACITY_PER_REPLICA)) * 100)).
\* currentLoad is always positive, so a zero capacity gives Infinity (clamped
\* to 100) and a negative one a negative reading.
Cpu(load, replicas) ==
    IF replicas = 0 THEN 100
    ELSE IF replicas > 0
         THEN Min(100, Round(load * 100, replicas * CAPACITY_PER_REPLICA))
         ELSE Min(100, Round(-(load * 100), (-replicas) * CAPACITY_PER_REPLICA))

\* Math.random() * 5 - 2.5 lies in [-2.5, 2.5); in tenths of a percent.
\* The classification is monotone in the noise, so the extremes and the
\* middle stand for the interval.
Noise == {-25, 0, 24}

\* cpu = Math.max(0, Math.min(100, cpu + noise)), in tenths of a percent.
NoisyCpu(load, replicas, noise) ==
    Max(0, Min(1000, 10 * Cpu(load, replicas) + noise))

----------------------------------------------------------------------------
(* Handler results *)

NoArg == [kind |-> "fin", twice |-> 0]

Response(op, arg, bypass, success, approvalRequired, approvalId, reason, log) ==
    [op |-> op, arg |-> arg, bypass |-> bypass, success |-> success,
     approvalRequired |-> approvalRequired, approvalId |-> approvalId,
     reason |-> reason, log |-> log]

Ok(op) == Response(op, NoArg, FALSE, TRUE, FALSE, null, "", {})
Failed(op, reason) == Response(op, NoArg, FALSE, FALSE, FALSE, null, reason, {})

----------------------------------------------------------------------------
(* Incident reports *)

\* The IncidentReport built at recovery (server.ts:85-92, 175-182, 276-283).
\* actions_taken is the one text the code synthesizes; the replica count it
\* interpolates is left out of the text (nothing reads it back).
Report(id, action) ==
    LET startTime == IF lastAlertTime # null THEN lastAlertTime ELSE now IN
    [incident_id |-> id,
     start_time |-> startTime,
     end_time |-> now,
     mttr_seconds |-> now - startTime,
     actions_taken |-> <<action>>]

----------------------------------------------------------------------------
(* executeMonitor *)

\* What the registered service may answer to a fetch.  "throw" is a network
\* error, a timeout or a body that is not JSON; "null" is a JSON null body;
\* "data" is a JSON object.  ok is response.ok.  status "absent" and
\* hasReplicas = FALSE stand for a missing field.
StatusStrings == {"absent", "HEALTHY", "CRITICAL", "DEGRADED"}
ReportedReplicas == {0, 12}
Replies ==
    {[kind |-> "throw", ok |-> FALSE, status |-> "absent", hasReplicas |-> FALSE, replicas |-> 0]}
    \cup {[kind |-> "null", ok |-> b, status |-> "absent", hasReplicas |-> FALSE, replicas |-> 0] :
            b \in BOOLEAN}
    \cup {[kind |-> "data", ok |-> b, status |-> st, hasReplicas |-> FALSE, replicas |-> 0] :
            b \in BOOLEAN, st \in StatusStrings}
    \cup {[kind |-> "data", ok |-> b, status |-> st, hasReplicas |-> TRUE, replicas |-> r] :
            b \in BOOLEAN, st \in StatusStrings, r \in ReportedReplicas}

\* Remove the i-th suspended handler.
Resume(i) == [j \in 1..(Len(inflight) - 1) |-> IF j < i THEN inflight[j] ELSE inflight[j + 1]]

\* server.ts:121-206, the simulation: classify from the noisy cpu reading.
SimulateMonitor(noise) ==
    LET cpu == NoisyCpu(currentLoad, activeReplicas, noise) IN
    IF cpu > 10 * CriticalCpu
    THEN /\ systemStatus' = "CRITICAL"
         /\ lastAlertTime' = IF systemStatus # "CRITICAL" THEN now ELSE lastAlertTime
         /\ UNCHANGED <<incidentReports, activeIncidentId>>
    ELSE IF systemStatus = "CRITICAL"
         THEN /\ Len(incidentReports) < MaxReports
              /\ systemStatus' = "HEALTHY"
              /\ incidentReports' = Append(incidentReports,
                    Report(IF activeIncidentId # null THEN activeIncidentId ELSE now,
                           "Scaled to N replicas"))
              /\ activeIncidentId' = null
              /\ lastAlertTime' = null
         ELSE /\ systemStatus' = "HEALTHY"
              /\ UNCHANGED <<incidentReports, activeIncidentId, lastAlertTime>>

\* server.ts:72-111, the sync of local state with the service's answer.
SyncMonitor(data) ==
    /\ activeReplicas' = IF data.hasReplicas THEN data.replicas ELSE activeReplicas
    /\ IF data.status \in {"HEALTHY", "CRITICAL"} /\ systemStatus # data.status
       THEN /\ systemStatus' = data.status
            /\ IF systemStatus = "CRITICAL" /\ data.status = "HEALTHY" /\ activeIncidentId # null
               THEN /\ Len(incidentReports) < MaxReports
                    /\ incidentReports' = Append(incidentReports,
                          Report(activeIncidentId,
                                 "Synced state: System recovered to HEALTHY"))
                    /\ activeIncidentId' = null
                    /\ lastAlertTime' = null
               ELSE /\ lastAlertTime' = IF data.status = "HEALTHY" THEN null ELSE lastAlertTime
                    /\ UNCHANGED <<incidentReports, activeIncidentId>>
       ELSE UNCHANGED <<systemStatus, lastAlertTime, incidentReports, activeIncidentId>>

\* What executeMonitor logs about where its result comes from
\* (server.ts:70, 114, 198).
MonitorLog(level, text) == [level |-> level, reason |-> text, args |-> NoArg]
SimulationLog == MonitorLog("INFO", "monitor_tool executed (simulation)")
ExternalLog == MonitorLog("INFO", "External monitor response received")
FallbackLog == MonitorLog("ERROR", "Failed to call external monitor endpoint")

\* monitor_tool with no active service: the simulation, in one turn.
MonitorSim(noise) ==
    /\ getActiveService = 0
    /\ SimulateMonitor(noise)
    /\ last' = [Ok("monitor") EXCEPT !.log = {SimulationLog}]
    /\ UNCHANGED <<activeReplicas, autoPilotMode, currentLoad, incidentCount, pendingApprovals,
                   services, activeServiceId, timers, inflight, now>>

\* monitor_tool with an active service: up to the await fetch (server.ts:64).
MonitorCall ==
    /\ getActiveService # 0
    /\ Len(inflight) < MaxInFlight
    /\ inflight' = Append(inflight,
          [op |-> "monitor", caller |-> "monitor", replicas |-> NoArg, bypass |-> FALSE,
           approvalId |-> null, allowed |-> TRUE])
    /\ UNCHANGED <<ctl, autoPilotMode, pendingApprovals, services, activeServiceId, timers,
                   now, last>>

MonitorReply_NoFallback(i, reply, noise) ==
    /\ i \in 1..Len(inflight)
    /\ inflight[i].op = "monitor"
    /\ inflight' = Resume(i)
    /\ IF reply.kind = "throw" \/ reply.kind = "null"
       THEN UNCHANGED <<systemStatus, activeReplicas, lastAlertTime, incidentReports,
                        activeIncidentId>>
       ELSE SyncMonitor(reply)
    /\ last' = [Ok("monitor") EXCEPT !.log = IF reply.kind = "throw"
                                             THEN {FallbackLog, SimulationLog}
                                             ELSE {ExternalLog}]
    /\ UNCHANGED <<autoPilotMode, currentLoad, incidentCount, pendingApprovals,
                   services, activeServiceId, timers, now>>

\* The continuation of executeMonitor when the service has answered or the
\* call has failed (server.ts:69-119, then 121-206 on failure).
MonitorReply(i, reply, noise) ==
    /\ i \in 1..Len(inflight)
    /\ inflight[i].op = "monitor"
    /\ inflight' = Resume(i)
    /\ IF reply.kind = "throw"
       THEN SimulateMonitor(noise) /\ UNCHANGED activeReplicas
       ELSE IF reply.kind = "null"
            THEN UNCHANGED <<systemStatus, activeReplicas, lastAlertTime, incidentReports,
                             activeIncidentId>>
            ELSE SyncMonitor(reply)
    /\ last' = [Ok("monitor") EXCEPT !.log = IF reply.kind = "throw"
                                             THEN {FallbackLog, SimulationLog}
                                             ELSE {ExternalLog}]
    /\ UNCHANGED <<autoPilotMode, currentLoad, incidentCount, pendingApprovals,
                   services, activeServiceId, timers, now>>

----------------------------------------------------------------------------
(* executeScale *)

\* Math.random().toString(36).substring(7): an id no pending entry carries.
NewApprovalId == CHOOSE id \in 1..(Cardinality(DOMAIN pendingApprovals) + 1) :
                    id \notin DOMAIN pendingApprovals

Delete(map, id) == [k \in DOMAIN map \ {id} |-> map[k]]

AfterReturn_KeepsEntry(caller, approvalId) == pendingApprovals

\* What the caller does with the pending set once executeScale has returned:
\* the approve handler deletes the approved entry (server.ts:584).
AfterReturn(caller, approvalId) ==
    IF caller = "approve" THEN Delete(pendingApprovals, approvalId) ELSE pendingApprovals

PolicyCheck_Skipped(replicas, bypassPolicy) ==
    [allowed |-> TRUE, approvalRequired |-> FALSE, reason |-> "", log |-> {}]

\* server.ts:210: the policy check, skipped when bypassed.
PolicyCheck(replicas, bypassPolicy) ==
    IF bypassPolicy
    THEN [allowed |-> TRUE, approvalRequired |-> FALSE, reason |-> "", log |-> {}]
    ELSE validateScale(replicas)

\* server.ts:208-337 up to the first await or the return.  caller is the
\* handler that invoked it: "scale" (POST /api/scale and scale_tool),
\* "autopilot" (the timer of trigger-alert) or "approve".
\* The pending set has no limit in the source.  Here requests stop being
\* deferred at MaxPending entries; the deferrals of the autopilot are not
\* counted, the alerts that queue them being bounded already.
executeScale(caller, replicas, bypassPolicy, approvalId) ==
    LET policyCheck == PolicyCheck(replicas, bypassPolicy) IN
    IF policyCheck.approvalRequired
    THEN /\ caller = "autopilot" \/ Cardinality(DOMAIN pendingApprovals) < MaxPending
         /\ pendingApprovals' = (NewApprovalId :> replicas) @@ pendingApprovals
         /\ last' = Response(caller, replicas, bypassPolicy, FALSE, TRUE, NewApprovalId,
                             policyCheck.reason,
                             {[level |-> "WARN", reason |-> "", args |-> replicas]})
         /\ UNCHANGED <<ctl, inflight>>
    ELSE IF ~policyCheck.allowed
    THEN /\ last' = Response(caller, replicas, bypassPolicy, FALSE, FALSE, null,
                             policyCheck.reason, policyCheck.log)
         /\ UNCHANGED <<ctl, pendingApprovals, inflight>>
    ELSE IF getActiveService # 0
    THEN /\ Len(inflight) < MaxInFlight
         /\ inflight' = Append(inflight,
               [op |-> "scale", caller |-> caller, replicas |-> replicas,
                bypass |-> bypassPolicy, approvalId |-> approvalId,
                allowed |-> policyCheck.allowed])
         /\ UNCHANGED <<ctl, pendingApprovals, last>>
    ELSE /\ activeReplicas' = IntOf(replicas)
         /\ pendingApprovals' = AfterReturn(caller, approvalId)
         /\ last' = Response(caller, replicas, bypassPolicy, TRUE, FALSE, approvalId, "", {})
         /\ UNCHANGED <<systemStatus, lastAlertTime, currentLoad, incidentCount,
                        incidentReports, activeIncidentId, inflight>>

\* server.ts:258-309: the continuation of executeScale once the service has
\* answered (or the call has thrown), followed by what the caller does next.
ScaleReply(i, reply) ==
    /\ i \in 1..Len(inflight)
    /\ inflight[i].op = "scale"
    /\ LET call == inflight[i]
           fail == Response(call.caller, call.replicas, call.bypass, FALSE, FALSE,
                            call.approvalId, "Failed to call external service", {})
       IN
       /\ inflight' = Resume(i)
       /\ pendingApprovals' = AfterReturn(call.caller, call.approvalId)
       /\ IF reply.kind = "throw" \/ ~reply.ok
          THEN \* a non-ok answer returns success: response.ok with data.message;
               \* reading data.message of a null body throws, like the fetch
               /\ last' = IF reply.kind = "data" THEN [fail EXCEPT !.reason = ""] ELSE fail
               /\ UNCHANGED ctl
          ELSE IF reply.kind = "null"
          THEN \* activeReplicas is assigned before data.replicas throws a TypeError
               /\ activeReplicas' = IntOf(call.replicas)
               /\ last' = fail
               /\ UNCHANGED <<systemStatus, lastAlertTime, currentLoad, incidentCount,
                              incidentReports, activeIncidentId>>
          ELSE /\ activeReplicas' = IF reply.hasReplicas /\ reply.replicas # 0
                                    THEN reply.replicas
                                    ELSE IntOf(call.replicas)
               /\ IF reply.status # "absent"
                  THEN /\ systemStatus' = reply.status
                       /\ IF /\ systemStatus = "CRITICAL"
                             /\ reply.status = "HEALTHY"
                             /\ activeIncidentId # null
                          THEN /\ Len(incidentReports) < MaxReports
                               /\ incidentReports' = Append(incidentReports,
                                     Report(activeIncidentId,
                                            "Scale action success: System recovered to HEALTHY"))
                               /\ activeIncidentId' = null
                               /\ lastAlertTime' = null
                          ELSE UNCHANGED <<incidentReports, activeIncidentId, lastAlertTime>>
                  ELSE UNCHANGED <<systemStatus, incidentReports, activeIncidentId,
                                   lastAlertTime>>
               /\ last' = Response(call.caller, call.replicas, call.bypass, TRUE, FALSE,
                                   call.approvalId, "", {})
               /\ UNCHANGED <<currentLoad, incidentCount>>
    /\ UNCHANGED <<autoPilotMode, services, activeServiceId, timers, now>>

\* approvalId in a result is the id the approve request named (null for the
\* other callers), or the id minted for a deferred request.
\* What POST /api/scale and scale_tool may pass: z.number() lets through every
\* number but NaN, and a JSON body can carry an overflowing literal.
ScaleInputs ==
    {PosInf, Half(2), Fin(-1), Fin(0), Fin(1), Fin(PolicyMaxReplicas),
     Fin(PolicyMaxReplicas + 1), Fin(15)}

Scale_Bypassed(replicas) ==
    /\ executeScale("scale", replicas, TRUE, null)
    /\ UNCHANGED <<autoPilotMode, services, activeServiceId, timers, now>>

\* POST /api/scale (server.ts:535-553) and the scale_tool case (746-765).
Scale(replicas) ==
    /\ executeScale("scale", replicas, FALSE, null)
    /\ UNCHANGED <<autoPilotMode, services, activeServiceId, timers, now>>

\* POST /api/approvals/:id/approve (server.ts:566-589).
Approve(id) ==
    /\ IF id \in DOMAIN pendingApprovals
       THEN executeScale("approve", pendingApprovals[id], TRUE, id)
       ELSE /\ last' = [Failed("approve", "Approval not found") EXCEPT !.approvalId = id]
            /\ UNCHANGED <<ctl, pendingApprovals, inflight>>
    /\ UNCHANGED <<autoPilotMode, services, activeServiceId, timers, now>>

AutopilotFire_Bypassed ==
    /\ timers # <<>>
    /\ timers' = Tail(timers)
    /\ executeScale("autopilot", Head(timers), TRUE, null)
    /\ UNCHANGED <<autoPilotMode, services, activeServiceId, now>>

AutopilotFire_SkipsIfHigher ==
    /\ timers # <<>>
    /\ timers' = Tail(timers)
    /\ IF activeReplicas > IntOf(Head(timers))
       THEN /\ last' = Response("autopilot", Head(timers), FALSE, TRUE, FALSE, null, "", {})
            /\ UNCHANGED <<ctl, pendingApprovals, inflight>>
       ELSE executeScale("autopilot", Head(timers), FALSE, null)
    /\ UNCHANGED <<autoPilotMode, services, activeServiceId, now>>

\* The setTimeout callback of trigger-alert (server.ts:499-502).
AutopilotFire ==
    /\ timers # <<>>
    /\ timers' = Tail(timers)
    /\ executeScale("autopilot", Head(timers), FALSE, null)
    /\ UNCHANGED <<autoPilotMode, services, activeServiceId, now>>

----------------------------------------------------------------------------
(* executeRollback *)

RollbackSim_ForcesHealthy ==
    /\ getActiveService = 0
    /\ activeReplicas' = BaselineReplicas
    /\ systemStatus' = "HEALTHY"
    /\ last' = Ok("rollback")
    /\ UNCHANGED <<lastAlertTime, autoPilotMode, currentLoad, incidentCount,
                   pendingApprovals, incidentReports, activeIncidentId, services,
                   activeServiceId, timers, inflight, now>>

RollbackSim_ResetsDemand ==
    /\ getActiveService = 0
    /\ activeReplicas' = BaselineReplicas
    /\ currentLoad' = NormalLoad
    /\ last' = Ok("rollback")
    /\ UNCHANGED <<systemStatus, lastAlertTime, autoPilotMode, incidentCount,
                   pendingApprovals, incidentReports, activeIncidentId, services,
                   activeServiceId, timers, inflight, now>>

\* POST /api/rollback and rollback_tool with no active service
\* (server.ts:357-378).
RollbackSim ==
    /\ getActiveService = 0
    /\ activeReplicas' = BaselineReplicas
    /\ last' = Ok("rollback")
    /\ UNCHANGED <<systemStatus, lastAlertTime, autoPilotMode, currentLoad, incidentCount,
                   pendingApprovals, incidentReports, activeIncidentId, services,
                   activeServiceId, timers, inflight, now>>

\* With an active service: up to the await fetch (server.ts:347).
RollbackCall ==
    /\ getActiveService # 0
    /\ Len(inflight) < MaxInFlight
    /\ inflight' = Append(inflight,
          [op |-> "rollback", caller |-> "rollback", replicas |-> NoArg, bypass |-> FALSE,
           approvalId |-> null, allowed |-> TRUE])
    /\ UNCHANGED <<ctl, autoPilotMode, pendingApprovals, services, activeServiceId, timers,
                   now, last>>

\* server.ts:351-354: success is response.ok; the body is not read.
RollbackReply(i, reply) ==
    /\ i \in 1..Len(inflight)
    /\ inflight[i].op = "rollback"
    /\ inflight' = Resume(i)
    /\ last' = IF reply.kind # "throw" /\ reply.ok
               THEN Ok("rollback")
               ELSE Failed("rollback", IF reply.kind = "throw"
                                       THEN "Failed to rollback external"
                                       ELSE "External rollback initiated")
    /\ UNCHANGED <<ctl, autoPilotMode, pendingApprovals, services, activeServiceId, timers,
                   now>>

----------------------------------------------------------------------------
(* The other handlers of the command surface *)

\* GET /api/status (server.ts:396-440).
GetStatus ==
    /\ systemStatus' =
          IF getActiveService # 0 THEN systemStatus
          ELSE IF Cpu(currentLoad, activeReplicas) > CriticalCpu THEN "CRITICAL" ELSE "HEALTHY"
    /\ last' = Ok("status")
    /\ UNCHANGED <<activeReplicas, lastAlertTime, autoPilotMode, currentLoad, incidentCount,
                   pendingApprovals, incidentReports, activeIncidentId, services,
                   activeServiceId, timers, inflight, now>>

NeededReplicas_NoHeadroom(load) ==
    (load + CAPACITY_PER_REPLICA - 1) \div CAPACITY_PER_REPLICA

\* neededReplicas = Math.ceil((currentLoad * 1.2) / CAPACITY_PER_REPLICA)
\* (server.ts:479), in exact arithmetic: ceil(12 * load / (10 * capacity)).
NeededReplicas(load) ==
    (12 * load + 10 * CAPACITY_PER_REPLICA - 1) \div (10 * CAPACITY_PER_REPLICA)

TargetReplicas_NoFloor(load, replicas) == NeededReplicas(load)

\* targetReplicas = Math.max(neededReplicas, activeReplicas + 2) (server.ts:481).
TargetReplicas(load, replicas) == Max(NeededReplicas(load), replicas + 2)

LoadSpike_Flat(level) == 1000

\* loadSpike = 500 + (incidentCount * 500) (server.ts:456).
LoadSpike(level) == 500 + level * 500

TriggerAlert_NoGuard ==
    /\ incidentCount < MaxIncidents
    /\ incidentCount' = incidentCount + 1
    /\ currentLoad' = LoadSpike(incidentCount + 1)
    /\ systemStatus' = "CRITICAL"
    /\ lastAlertTime' = now
    /\ activeIncidentId' = now
    /\ IF autoPilotMode
       THEN /\ Len(timers) < MaxTimers
            /\ TargetReplicas(LoadSpike(incidentCount + 1), activeReplicas) <= MaxTarget
            /\ timers' = Append(timers,
                  [kind |-> "fin",
                   twice |-> 2 * TargetReplicas(LoadSpike(incidentCount + 1), activeReplicas)])
       ELSE UNCHANGED timers
    /\ last' = Ok("trigger-alert")
    /\ UNCHANGED <<activeReplicas, autoPilotMode, pendingApprovals, incidentReports,
                   services, activeServiceId, inflight, now>>

\* POST /api/trigger-alert (server.ts:446-510).
TriggerAlert ==
    IF systemStatus = "CRITICAL"
    THEN /\ last' = Failed("trigger-alert", "Alert already active")
         /\ UNCHANGED <<ctl, autoPilotMode, pendingApprovals, services, activeServiceId,
                        timers, inflight, now>>
    ELSE /\ incidentCount < MaxIncidents
         /\ incidentCount' = incidentCount + 1
         /\ currentLoad' = LoadSpike(incidentCount + 1)
         /\ systemStatus' = "CRITICAL"
         /\ lastAlertTime' = now
         /\ activeIncidentId' = now
         /\ IF autoPilotMode
            THEN /\ Len(timers) < MaxTimers
                 /\ TargetReplicas(LoadSpike(incidentCount + 1), activeReplicas) <= MaxTarget
                 /\ timers' = Append(timers,
                       [kind |-> "fin",
                        twice |-> 2 * TargetReplicas(LoadSpike(incidentCount + 1), activeReplicas)])
            ELSE UNCHANGED timers
         /\ last' = Ok("trigger-alert")
         /\ UNCHANGED <<activeReplicas, autoPilotMode, pendingApprovals, incidentReports,
                        services, activeServiceId, inflight, now>>

Reset_CancelsTimers ==
    /\ systemStatus' = "HEALTHY"
    /\ activeReplicas' = BaselineReplicas
    /\ lastAlertTime' = null
    /\ currentLoad' = NormalLoad
    /\ incidentCount' = 0
    /\ pendingApprovals' = <<>>
    /\ timers' = <<>>
    /\ last' = Ok("reset")
    /\ UNCHANGED <<autoPilotMode, incidentReports, activeIncidentId, services,
                   activeServiceId, inflight, now>>

\* POST /api/simulation/reset (server.ts:512-521).
Reset ==
    /\ systemStatus' = "HEALTHY"
    /\ activeReplicas' = BaselineReplicas
    /\ lastAlertTime' = null
    /\ currentLoad' = NormalLoad
    /\ incidentCount' = 0
    /\ pendingApprovals' = <<>>
    /\ last' = Ok("reset")
    /\ UNCHANGED <<autoPilotMode, incidentReports, activeIncidentId, services,
                   activeServiceId, timers, inflight, now>>

\* POST /api/autoscale (server.ts:523-533).
SetAutopilot(enabled) ==
    /\ autoPilotMode' = enabled
    /\ last' = Ok("autoscale")
    /\ UNCHANGED <<ctl, pendingApprovals, services, activeServiceId, timers, inflight, now>>

\* POST /api/register, /api/services/:id/approve, /reject, /activate
\* (server.ts:598-673).  A request for an id that is not found answers 404 and
\* changes nothing.
Register ==
    /\ registerService
    /\ last' = Ok("register")
    /\ UNCHANGED <<ctl, autoPilotMode, pendingApprovals, timers, inflight, now>>

ApproveService(id) ==
    /\ approveService(id)
    /\ last' = Ok("approve-service")
    /\ UNCHANGED <<ctl, autoPilotMode, pendingApprovals, timers, inflight, now>>

RejectService(id) ==
    /\ rejectService(id)
    /\ last' = Ok("reject-service")
    /\ UNCHANGED <<ctl, autoPilotMode, pendingApprovals, timers, inflight, now>>

ActivateService(id) ==
    /\ activateService(id)
    /\ last' = Ok("activate-service")
    /\ UNCHANGED <<ctl, autoPilotMode, pendingApprovals, timers, inflight, now>>

\* Date.now() advances.
Tick ==
    /\ now < MaxTime
    /\ now' = now + 1
    /\ UNCHANGED <<ctl, autoPilotMode, pendingApprovals, services, activeServiceId, timers,
                   inflight, last>>

----------------------------------------------------------------------------------------------------------------------------------------------------------------------------------------------------
(* Specifications *)

\* The state after construction.  registry.ts loads services.json at startup:
\* registry is what the file held, and the rest is the module's initialisers.
Boot(registry, active) ==
    /\ systemStatus = "HEALTHY"
    /\ activeReplicas = BaselineReplicas
    /\ lastAlertTime = null
    /\ autoPilotMode = FALSE
    /\ currentLoad = NormalLoad
    /\ incidentCount = 0
    /\ pendingApprovals = <<>>
    /\ incidentReports = <<>>
    /\ activeIncidentId = null
    /\ services = registry
    /\ activeServiceId = active
    /\ timers = <<>>
    /\ inflight = <<>>
    /\ now = 1
    /\ last = Ok("start")
    /\ recovered = FALSE

\* No services.json: an empty registry, every handler simulates.
Init == Boot(<<>>, null)

\* services.json holds one approved, active service.
InitProxy == Boot(<<[id |-> 1, status |-> "approved"]>>, 1)

\* The history variable: signal says whether the step is a monitor evaluation.
Track(signal) ==
    recovered' = IF systemStatus' = "CRITICAL" /\ systemStatus # "CRITICAL" THEN FALSE
                 ELSE IF signal /\ systemStatus' = "HEALTHY" THEN TRUE
                 ELSE recovered

\* A monitor evaluation in simulation mode.
MonitorStepSim == \E noise \in Noise : MonitorSim(noise)

\* A monitor evaluation completing with an active service: the service's
\* answer, or the fallback to the simulation when the call fails.
MonitorStepProxy ==
    \/ \E i \in 1..MaxInFlight, reply \in {r \in Replies : r.kind # "throw"} :
          MonitorReply(i, reply, 0)
    \/ \E i \in 1..MaxInFlight, reply \in {r \in Replies : r.kind = "throw"}, noise \in Noise :
          MonitorReply(i, reply, noise)

\* The command surface in simulation mode.
Next ==
    \/ MonitorStepSim /\ Track(TRUE)
    \/ (\E replicas \in ScaleInputs : Scale(replicas)) /\ Track(FALSE)
    \/ (\E id \in 1..MaxPending : Approve(id)) /\ Track(FALSE)
    \/ AutopilotFire /\ Track(FALSE)
    \/ RollbackSim /\ Track(FALSE)
    \/ GetStatus /\ Track(FALSE)
    \/ TriggerAlert /\ Track(FALSE)
    \/ (\E enabled \in BOOLEAN : SetAutopilot(enabled)) /\ Track(FALSE)

Spec == Init /\ [][Next]_vars

\* Scale requests and approvals with a registered service that may be
\* rejected and approved again while calls are in flight.
NextProxy ==
    \/ (\E replicas \in ScaleInputs : Scale(replicas)) /\ Track(FALSE)
    \/ (\E id \in 1..MaxPending : Approve(id)) /\ Track(FALSE)
    \/ (\E i \in 1..MaxInFlight, reply \in Replies : ScaleReply(i, reply)) /\ Track(FALSE)
    \/ TriggerAlert /\ Track(FALSE)
    \/ (\E id \in 1..MaxTime : ApproveService(id)) /\ Track(FALSE)
    \/ (\E id \in 1..MaxTime : RejectService(id)) /\ Track(FALSE)

SpecProxy == InitProxy /\ [][NextProxy]_vars

\* The incident lifecycle in both modes.
NextIncident ==
    \/ MonitorStepSim /\ Track(TRUE)
    \/ MonitorCall /\ Track(FALSE)
    \/ MonitorStepProxy /\ Track(TRUE)
    \/ (\E replicas \in {Fin(1), Fin(PolicyMaxReplicas)} : Scale(replicas)) /\ Track(FALSE)
    \/ (\E i \in 1..MaxInFlight, reply \in Replies : ScaleReply(i, reply)) /\ Track(FALSE)
    \/ RollbackSim /\ Track(FALSE)
    \/ GetStatus /\ Track(FALSE)
    \/ TriggerAlert /\ Track(FALSE)
    \/ (\E id \in 1..MaxTime : ApproveService(id)) /\ Track(FALSE)
    \/ (\E id \in 1..MaxTime : RejectService(id)) /\ Track(FALSE)

SpecIncident == InitProxy /\ [][NextIncident]_vars

\* The simulation under a clock that advances between requests, with the
\* simulation reset.
NextTime ==
    \/ MonitorStepSim /\ Track(TRUE)
    \/ Scale(Fin(PolicyMaxReplicas)) /\ Track(FALSE)
    \/ RollbackSim /\ Track(FALSE)
    \/ GetStatus /\ Track(FALSE)
    \/ TriggerAlert /\ Track(FALSE)
    \/ Reset /\ Track(FALSE)
    \/ Tick /\ Track(FALSE)

SpecTime == Init /\ [][NextTime]_vars

\* Scale and rollback with a registered service that answers, fails, or is
\* deregistered so that the simulation takes over.
NextDelegate ==
    \/ (\E replicas \in {Fin(1), Fin(PolicyMaxReplicas)} : Scale(replicas)) /\ Track(FALSE)
    \/ (\E i \in 1..MaxInFlight, reply \in Replies : ScaleReply(i, reply)) /\ Track(FALSE)
    \/ RollbackSim /\ Track(FALSE)
    \/ RollbackCall /\ Track(FALSE)
    \/ (\E i \in 1..MaxInFlight, reply \in Replies : RollbackReply(i, reply)) /\ Track(FALSE)
    \/ TriggerAlert /\ Track(FALSE)
    \/ MonitorStepSim /\ Track(TRUE)
    \/ (\E id \in 1..MaxTime : ApproveService(id)) /\ Track(FALSE)
    \/ (\E id \in 1..MaxTime : RejectService(id)) /\ Track(FALSE)

SpecDelegate == InitProxy /\ [][NextDelegate]_vars

\* The command surface in simulation mode together with the simulation
\* reset.
NextReset ==
    \/ MonitorStepSim /\ Track(TRUE)
    \/ (\E replicas \in {Fin(PolicyMaxReplicas), Fin(PolicyMaxReplicas + 1)} :
           Scale(replicas)) /\ Track(FALSE)
    \/ (\E id \in 1..MaxPending : Approve(id)) /\ Track(FALSE)
    \/ AutopilotFire /\ Track(FALSE)
    \/ RollbackSim /\ Track(FALSE)
    \/ GetStatus /\ Track(FALSE)
    \/ TriggerAlert /\ Track(FALSE)
    \/ (\E enabled \in BOOLEAN : SetAutopilot(enabled)) /\ Track(FALSE)
    \/ Reset /\ Track(FALSE)

SpecReset == Init /\ [][NextReset]_vars

\* The autopilot and what could interfere with a queued action.  Node runs
\* the callback of every expired timeout once the running handler has
\* returned, and no handler loops: the timer step is weakly fair.
NextTimers ==
    \/ MonitorStepSim /\ Track(TRUE)
    \/ Scale(Fin(1)) /\ Track(FALSE)
    \/ RollbackSim /\ Track(FALSE)
    \/ TriggerAlert /\ Track(FALSE)
    \/ (\E enabled \in BOOLEAN : SetAutopilot(enabled)) /\ Track(FALSE)
    \/ Reset /\ Track(FALSE)
    \/ AutopilotFire /\ Track(FALSE)

SpecTimers == Init /\ [][NextTimers]_vars /\ WF_vars(AutopilotFire /\ Track(FALSE))

\* One alert and its recovery by the autopilot: the alert is the first one and
\* no other follows, nothing scales, rolls back or resets, and status polls,
\* monitor evaluations and the clock interleave freely.  The timer step is
\* weakly fair as in SpecTimers; the monitor is called again and again by its
\* clients, so its evaluation is weakly fair too.
NextRecovery ==
    \/ (\E enabled \in BOOLEAN : SetAutopilot(enabled)) /\ Track(FALSE)
    \/ (incidentCount = 0 /\ TriggerAlert) /\ Track(FALSE)
    \/ AutopilotFire /\ Track(FALSE)
    \/ MonitorStepSim /\ Track(TRUE)
    \/ GetStatus /\ Track(FALSE)
    \/ Tick /\ Track(FALSE)

SpecRecovery ==
    /\ Init
    /\ [][NextRecovery]_vars
    /\ WF_vars(AutopilotFire /\ Track(FALSE))
    /\ WF_vars(MonitorStepSim /\ Track(TRUE))

\* The registry alone, from no services.json: registrations, the three
\* decisions of the administrator, and the clock that names the services.
NextRegistry ==
    \/ Register /\ Track(FALSE)
    \/ (\E id \in 1..MaxTime : ApproveService(id)) /\ Track(FALSE)
    \/ (\E id \in 1..MaxTime : RejectService(id)) /\ Track(FALSE)
    \/ (\E id \in 1..MaxTime : ActivateService(id)) /\ Track(FALSE)
    \/ Tick /\ Track(FALSE)

SpecRegistry == Init /\ [][NextRegistry]_vars

----------------------------------------------------------------------------
(* Claims about the policy gate and the scale path *)

\* A replicas value one of the first four rules rejects.
BadReplicas(x) == ~isFinite(x) \/ ~isInteger(x) \/ x.twice <= 0

\* The reason of the first rule x violates.
ViolatedRule(x) ==
    IF x.kind # "fin" THEN "Replicas must be a finite number"
    ELSE IF x.twice % 2 # 0 THEN "Replicas must be a whole number"
    ELSE IF x.twice < 0 THEN "Replicas cannot be negative"
    ELSE "Cannot scale to zero replicas (would cause downtime)"

\* The step is the completion of a scale execution that went through the
\* policy gate (a manual request or the autopilot timer).
GatedScaleDone ==
    /\ last' # last
    /\ last'.op \in {"scale", "autopilot"}
    /\ ~last'.bypass

\* C1: a scale request without bypass whose replicas is non-finite,
\* non-integer, negative or zero is denied with the reason of the violated
\* rule and changes nothing: replicas, health, demand, incidentLevel, the
\* alert timestamp, the open incident, the history and the pending set stay
\* as they were, and no delegate call is made for it.
C1_DeniedScaleChangesNothing ==
    [][ /\ \A i \in 1..Len(inflight') :
              inflight'[i].op = "scale" /\ ~inflight'[i].bypass
                 => ~BadReplicas(inflight'[i].replicas)
        /\ (GatedScaleDone /\ BadReplicas(last'.arg))
              => /\ ~last'.success
                 /\ ~last'.approvalRequired
                 /\ last'.reason = ViolatedRule(last'.arg)
                 /\ UNCHANGED <<ctl, pendingApprovals, inflight>> ]_vars

C1_Witness ==
    /\ getActiveService # 0
    /\ last.op = "scale"
    /\ last.arg = Fin(0)
    /\ ~last.success
    /\ systemStatus = "CRITICAL"

\* C2: a scale request without bypass for an integer above 10 is deferred: it
\* answers approvalRequired with a new approval id, adds exactly one pending
\* entry, whose details.replicas is the requested value, and leaves replicas,
\* health, demand and the incident state unchanged.
C2_HighScaleDeferred ==
    [][ (GatedScaleDone /\ isInteger(last'.arg) /\ IntOf(last'.arg) > 10)
          => /\ ~last'.success
             /\ last'.approvalRequired
             /\ last'.approvalId \notin DOMAIN pendingApprovals
             /\ DOMAIN pendingApprovals' = DOMAIN pendingApprovals \cup {last'.approvalId}
             /\ pendingApprovals'[last'.approvalId] = last'.arg
             /\ \A id \in DOMAIN pendingApprovals : pendingApprovals'[id] = pendingApprovals[id]
             /\ UNCHANGED <<ctl, inflight>> ]_vars

C2_Witness ==
    /\ last.op = "scale"
    /\ last.arg = Fin(15)
    /\ last.approvalRequired
    /\ last.approvalId \in DOMAIN pendingApprovals
    /\ pendingApprovals[last.approvalId] = Fin(15)

\* C3: for an integer n with 1 <= n <= 10 the gate admits, and in simulation
\* mode the scale succeeds, sets replicas to exactly n and leaves health as it
\* was.
C3_ScaleInRangeApplied ==
    [][ (/\ GatedScaleDone
         /\ isInteger(last'.arg)
         /\ 1 <= IntOf(last'.arg)
         /\ IntOf(last'.arg) <= 10
         /\ getActiveService = 0)
          => /\ last'.success
             /\ ~last'.approvalRequired
             /\ activeReplicas' = IntOf(last'.arg)
             /\ systemStatus' = systemStatus
             /\ UNCHANGED pendingApprovals ]_vars

\* Scaled to 10 under a demand of 1000: the load is far below the threshold,
\* and health is still CRITICAL.
C3_Witness ==
    /\ last.op = "scale"
    /\ last.arg = Fin(10)
    /\ last.success
    /\ activeReplicas = 10
    /\ systemStatus = "CRITICAL"

\* C4: approvePending(id) of a pending entry runs the scale with the policy
\* bypassed: in simulation mode replicas becomes the deferred value although
\* it exceeds 10, no new pending entry is created and the entry is removed;
\* approvePending of an unknown id fails and changes nothing.
C4_ApproveExecutesDeferred ==
    [][ (last' # last /\ last'.op = "approve" /\ getActiveService = 0)
          => IF last'.approvalId \in DOMAIN pendingApprovals
             THEN /\ last'.success
                  /\ last'.bypass
                  /\ last'.arg = pendingApprovals[last'.approvalId]
                  /\ activeReplicas' = IntOf(pendingApprovals[last'.approvalId])
                  /\ pendingApprovals' =
                        [k \in DOMAIN pendingApprovals \ {last'.approvalId} |-> pendingApprovals[k]]
                  /\ UNCHANGED <<systemStatus, lastAlertTime, currentLoad, incidentCount,
                                 incidentReports, activeIncidentId>>
             ELSE /\ ~last'.success
                  /\ UNCHANGED <<ctl, pendingApprovals, inflight>> ]_vars

C4_Witness ==
    /\ last.op = "approve"
    /\ last.success
    /\ last.arg = Fin(15)
    /\ activeReplicas = 15
    /\ pendingApprovals = <<>>

\* C5: the policy check comes before any effect of a scale execution without
\* bypass: a delegate scale call is in flight, or replicas or health has been
\* written by such an execution, only if the gate admitted its replicas.
C5_PolicyBeforeEffect ==
    [][ /\ \A i \in 1..Len(inflight') :
              inflight'[i].op = "scale" /\ ~inflight'[i].bypass
                 => validateScale(inflight'[i].replicas).allowed
        /\ (/\ GatedScaleDone
            /\ (activeReplicas' # activeReplicas \/ systemStatus' # systemStatus))
              => validateScale(last'.arg).allowed ]_vars

C5_Witness ==
    /\ inflight # <<>>
    /\ inflight[1].op = "scale"
    /\ ~inflight[1].bypass
    /\ inflight[1].replicas = Fin(10)
    /\ last.op = "scale"
    /\ ~last.success

\* C6: the replica count never exceeds 10.
C6_ReplicasNeverAboveMax == activeReplicas <= 10

----------------------------------------------------------------------------
(* Claims about the incident lifecycle *)

\* C7: the closed-incident history grows by exactly one record whenever
\* health goes from CRITICAL back to HEALTHY, whichever operation causes it,
\* and by none at any other time.
C7_OneRecordPerRecovery ==
    [][ Len(incidentReports') =
           Len(incidentReports)
           + (IF systemStatus = "CRITICAL" /\ systemStatus' = "HEALTHY" THEN 1 ELSE 0) ]_vars

\* C8: an incident is never opened while another is still open: when
\* triggerAlert assigns a new incident id, no incident is open.
C8_NoOpenIncidentOverwritten ==
    [][ (last' # last /\ last'.op = "trigger-alert" /\ last'.success)
           => activeIncidentId = null ]_vars

C9_IdempotentWhileHealthy ==
    [][ (/\ recovered
         /\ systemStatus = "HEALTHY"
         /\ (MonitorStepSim \/ MonitorStepProxy)
         /\ systemStatus' = "HEALTHY")
           => UNCHANGED <<incidentReports, activeIncidentId, lastAlertTime>> ]_vars

\* C10: when health goes from CRITICAL to HEALTHY with no open incident id,
\* no record is appended to the history.
C10_RecoveryWithoutIncidentNoOp ==
    [][ (systemStatus = "CRITICAL" /\ systemStatus' = "HEALTHY" /\ activeIncidentId = null)
           => incidentReports' = incidentReports ]_vars

\* C11: a record that closes an incident carries that incident's time to
\* recovery: mttr_seconds is the record's end time (the instant of recovery)
\* minus the instant at which the incident whose id the record carries was
\* opened.  An incident id is INC-<instant of opening> (server.ts:463), so the
\* id is that instant.
C11_MttrIsEndMinusOpening ==
    [][ (Len(incidentReports') = Len(incidentReports) + 1 /\ activeIncidentId # null)
           => /\ incidentReports'[Len(incidentReports')].incident_id = activeIncidentId
              /\ incidentReports'[Len(incidentReports')].end_time = now
              /\ incidentReports'[Len(incidentReports')].mttr_seconds = now - activeIncidentId ]_vars

\* The same read over the whole history, records with an id made up at
\* recovery included.
C11_EveryRecordMttr ==
    \A i \in 1..Len(incidentReports) :
        incidentReports[i].mttr_seconds =
            incidentReports[i].end_time - incidentReports[i].incident_id

----------------------------------------------------------------------------
(* Claims about classification, alerts and the autopilot *)

\* C12: in simulation mode the health after a monitor call is a function of
\* demand and replicas alone: CRITICAL if and only if
\* min(100, round(100 * demand / (replicas * 200))) is greater than 90, and
\* HEALTHY otherwise; so two monitor calls from the same state classify alike.
C12_ClassificationDeterministic ==
    [][ MonitorStepSim
           => systemStatus' = (IF Cpu(currentLoad, activeReplicas) > 90
                               THEN "CRITICAL" ELSE "HEALTHY") ]_vars

\* C13: triggerAlert issued while health is HEALTHY increments incidentLevel
\* by exactly one, sets demand to 500 + 500 * (new incidentLevel), sets health
\* to CRITICAL, records the alert timestamp and opens one incident (the
\* history is not touched).
C13_AlertEscalates ==
    [][ (systemStatus = "HEALTHY" /\ TriggerAlert)
           => /\ last'.success
              /\ incidentCount' = incidentCount + 1
              /\ currentLoad' = 500 + 500 * incidentCount'
              /\ systemStatus' = "CRITICAL"
              /\ lastAlertTime' = now
              /\ activeIncidentId' = now
              /\ activeIncidentId' # null
              /\ incidentReports' = incidentReports ]_vars

\* The second alert, raised after the clock has advanced.
C13_Witness ==
    /\ last.op = "trigger-alert"
    /\ last.success
    /\ incidentCount = 2
    /\ currentLoad = 1500
    /\ systemStatus = "CRITICAL"
    /\ lastAlertTime = 2
    /\ activeIncidentId = 2

\* ceil(a / b) for positive b.
CeilDiv(a, b) == CHOOSE n \in 0..100 : n * b >= a /\ (n - 1) * b < a

\* C14: the autopilot target is max(ceil(demand * 1.2 / 200), replicas + 2),
\* from the demand and the replicas at the moment of the alert, and so it is
\* strictly greater than the replica count at planning time.
C14_AutopilotTarget ==
    [][ (systemStatus # "CRITICAL" /\ autoPilotMode /\ TriggerAlert)
           => LET needed == CeilDiv(12 * currentLoad', 2000)
                  target == IF needed >= activeReplicas + 2 THEN needed
                            ELSE activeReplicas + 2
              IN /\ timers' = Append(timers, [kind |-> "fin", twice |-> 2 * target])
                 /\ target > activeReplicas ]_vars

\* Demand 1000 and 3 replicas: the queued target is 6.
C14_Witness ==
    /\ last.op = "trigger-alert"
    /\ last.success
    /\ autoPilotMode
    /\ currentLoad = 1000
    /\ activeReplicas = 3
    /\ timers = <<[kind |-> "fin", twice |-> 12]>>

\* C15: the autopilot planner runs exactly once per transition of health from
\* HEALTHY to CRITICAL when autopilot is enabled, whatever causes the
\* transition, and never otherwise: such a step queues exactly one scale
\* action, and no other step queues any.
C15_PlannerOncePerTransition ==
    [][ IF systemStatus = "HEALTHY" /\ systemStatus' = "CRITICAL" /\ autoPilotMode
        THEN Len(timers') = Len(timers) + 1
        ELSE Len(timers') <= Len(timers) ]_vars

\* C16: the scale the autopilot scheduled is never policy-bypassed: fired
\* with a target of at most 10 it is applied like a manual scale (in
\* simulation mode replicas becomes the target), and fired with a target above
\* 10 it leaves replicas unchanged and creates a pending approval for that
\* target.
C16_AutopilotGoesThroughPolicy ==
    [][ (last' # last /\ last'.op = "autopilot" /\ getActiveService = 0)
           => /\ ~last'.bypass
              /\ timers # <<>>
              /\ last'.arg = Head(timers)
              /\ IF IntOf(last'.arg) <= 10
                 THEN /\ last'.success
                      /\ activeReplicas' = IntOf(last'.arg)
                      /\ pendingApprovals' = pendingApprovals
                 ELSE /\ ~last'.success
                      /\ last'.approvalRequired
                      /\ activeReplicas' = activeReplicas
                      /\ last'.approvalId \notin DOMAIN pendingApprovals
                      /\ DOMAIN pendingApprovals' =
                            DOMAIN pendingApprovals \cup {last'.approvalId}
                      /\ pendingApprovals'[last'.approvalId] = last'.arg ]_vars

\* The timer queued at 10 replicas fired with target 12 and was deferred.
C16_Witness ==
    /\ last.op = "autopilot"
    /\ last.arg = [kind |-> "fin", twice |-> 24]
    /\ last.approvalRequired
    /\ activeReplicas = 10
    /\ last.approvalId \in DOMAIN pendingApprovals
    /\ pendingApprovals[last.approvalId] = last.arg

\* C17: a queued autopilot action fires exactly once: the queue changes only
\* by a new action being queued behind the others or by its head firing (the
\* scale for that target runs), so no operation cancels an action and none
\* fires twice; and a queued action does fire: the queue drains or its head
\* fires, again and again.
C17_TimerFiresExactlyOnce ==
    /\ [][ timers' # timers
             => \/ /\ Len(timers') = Len(timers) + 1
                   /\ \A i \in 1..Len(timers) : timers'[i] = timers[i]
                \/ /\ timers # <<>>
                   /\ timers' = Tail(timers)
                   /\ last'.op = "autopilot"
                   /\ last'.arg = Head(timers) ]_vars
    /\ ([]<>(timers = <<>>) \/ []<><<timers # <<>> /\ timers' = Tail(timers)>>_vars)

\* The action fired after the simulation was reset and autopilot switched off.
C17_Witness ==
    /\ last.op = "autopilot"
    /\ last.success
    /\ ~autoPilotMode
    /\ incidentCount = 0
    /\ timers = <<>>

----------------------------------------------------------------------------
(* Claims about rollback and the delegate *)

\* A rollback request completes: in simulation in one step, with an active
\* service when the service has answered or the call has failed.
RollbackDone ==
    \/ RollbackSim
    \/ \E i \in 1..MaxInFlight, reply \in Replies : RollbackReply(i, reply)

\* C18: rollback always resets replicas to the baseline 3 whatever the prior
\* value and does not itself change health: after a successful rollback
\* replicas is 3 and health is what it was before.
C18_RollbackResetsToBaseline ==
    [][ (RollbackDone /\ last'.success)
           => /\ activeReplicas' = 3
              /\ systemStatus' = systemStatus ]_vars

\* C18, amended: with no active service rollback succeeds, sets replicas to 3
\* and leaves health as it was; with an active service it only delegates:
\* its success is the service's response.ok, and replicas, health, demand and
\* the incident state are left as they were.
C18_RollbackResetsInSimulation ==
    [][ /\ RollbackSim
           => /\ last'.success
              /\ activeReplicas' = 3
              /\ systemStatus' = systemStatus
        /\ Len(inflight') < Len(inflight)
           => \A i \in 1..MaxInFlight, reply \in Replies :
                 RollbackReply(i, reply)
                    => /\ last'.success = (reply.kind # "throw" /\ reply.ok)
                       /\ UNCHANGED ctl ]_vars

\* A simulated rollback under a demand of 1000: replicas is back to 3 and
\* health is still the CRITICAL of the alert.
C18_Witness ==
    /\ getActiveService = 0
    /\ last.op = "rollback"
    /\ last.success
    /\ activeReplicas = 3
    /\ currentLoad = 1000
    /\ systemStatus = "CRITICAL"

\* C19: with an active service, when the delegate call of a scale or of a
\* rollback fails, the operation returns success = false, replicas, health,
\* demand and the incident state are unchanged (the simulation is not applied
\* instead), and the call is not made again.
C19_DelegateFailureLeavesState ==
    [][ (/\ Len(inflight') < Len(inflight)
         /\ last'.op \in {"scale", "approve", "autopilot", "rollback"}
         /\ ~last'.success)
           => /\ UNCHANGED ctl
              /\ Len(inflight') = Len(inflight) - 1 ]_vars

\* The same for the failures of the transport alone: the call throws (network
\* error, timeout, a body that is not JSON) or the HTTP status is not a success.
C19_TransportFailureLeavesState ==
    [][ Len(inflight') < Len(inflight)
           => \A i \in 1..MaxInFlight,
                 reply \in {r \in Replies : r.kind = "throw" \/ ~r.ok} :
                 (ScaleReply(i, reply) \/ RollbackReply(i, reply))
                    => /\ ~last'.success
                       /\ UNCHANGED ctl
                       /\ Len(inflight') = Len(inflight) - 1 ]_vars

C21_NonOkMonitorNotAdopted ==
    [][ Len(inflight') < Len(inflight)
           => \A i \in 1..MaxInFlight,
                 reply \in {r \in Replies : r.kind = "data" /\ ~r.ok} :
                 MonitorReply(i, reply, 0)
                    => /\ activeReplicas' = activeReplicas
                       /\ \E noise \in Noise : SimulateMonitor(noise) ]_vars

\* C22: mutating operations are serialized: while an execution of scale,
\* rollback, approval or monitor is suspended waiting for the service, no
\* other such execution starts, and none writes replicas, health, the open
\* incident or the pending set; only the continuation of the suspended one
\* does.
C22_ExecutionsSerialized ==
    [][ (inflight # <<>> /\ Len(inflight') >= Len(inflight))
           => /\ Len(inflight') = Len(inflight)
              /\ last'.op \in {"scale", "approve", "autopilot", "rollback", "monitor"}
                    => UNCHANGED <<activeReplicas, systemStatus, activeIncidentId,
                                   pendingApprovals>> ]_vars

----------------------------------------------------------------------------
(* Claims about the health transitions and the state invariants *)

\* C23: every transition of health from HEALTHY to CRITICAL, whichever
\* operation causes it, records the alert timestamp, opens a new incident and
\* increments incidentLevel in the same step.
C23_CriticalOpensIncident ==
    [][ (systemStatus = "HEALTHY" /\ systemStatus' = "CRITICAL")
           => /\ lastAlertTime' = now
              /\ activeIncidentId' # null
              /\ incidentCount' = incidentCount + 1 ]_vars

\* The consequence C23 draws: whenever health is CRITICAL an incident is open
\* and the alert timestamp is set.
C23_CriticalHasIncident ==
    systemStatus = "CRITICAL" => (activeIncidentId # null /\ lastAlertTime # null)

\* C24: every transition of health from CRITICAL to HEALTHY, whichever
\* operation causes it, closes the open incident and clears the alert
\* timestamp in the same step.
C24_HealthyClosesIncident ==
    [][ (systemStatus = "CRITICAL" /\ systemStatus' = "HEALTHY")
           => /\ activeIncidentId' = null
              /\ lastAlertTime' = null ]_vars

\* The consequence C24 draws: whenever health is HEALTHY no incident is open
\* and the alert timestamp is absent.
C24_HealthyHasNoIncident ==
    systemStatus = "HEALTHY" => (activeIncidentId = null /\ lastAlertTime = null)

\* C25: in every reachable state health is HEALTHY or CRITICAL, whatever
\* status string the service returns to a monitor or to a scale call.
C25_HealthIsHealthyOrCritical == systemStatus \in {"HEALTHY", "CRITICAL"}

\* C26: in every reachable state replicas is an integer of at least 1, and
\* replicas changes only as the result of a successful scale or rollback,
\* never as the result of monitor, getStatus, triggerAlert or setAutopilot.
C26_ReplicasPositiveAndOwned ==
    [][ /\ activeReplicas' >= 1
        /\ activeReplicas' # activeReplicas
              => /\ last'.op \in {"scale", "approve", "autopilot", "rollback"}
                 /\ last'.success ]_vars

\* C27: getStatus is a pure read: it leaves health, replicas, demand, the
\* alert timestamp, the open incident, the history and the pending approvals
\* unchanged.
C27_GetStatusIsPureRead ==
    [][ GetStatus => UNCHANGED <<ctl, pendingApprovals>> ]_vars

----------------------------------------------------------------------------
(* Claims about the record of actions, the autopilot and the audit log *)

\* C28: the actions_taken of a closed record lists, in order, the scales and
\* rollbacks executed between the incident's open and its close, one entry
\* for each.  In particular an incident that is closed by the request that
\* follows the alert that opened it, nothing having been executed in between,
\* has an empty list.
C28_ActionsTakenListsExecutions ==
    [][ (/\ Len(incidentReports') = Len(incidentReports) + 1
         /\ last.op = "trigger-alert"
         /\ last.success
         /\ activeIncidentId # null)
           => incidentReports'[Len(incidentReports')].actions_taken = <<>> ]_vars

\* C29: a scheduled autopilot action is not affected by what happens between
\* its scheduling and its firing: no other operation alters the queued
\* target; when it fires it requests that target, the policy gate decides on
\* it, and on Admit replicas becomes the target even if an operator has
\* meanwhile scaled to another, possibly higher, value.
C29_AutopilotLastWriterWins ==
    [][ /\ (timers # <<>> /\ Len(timers') >= Len(timers))
              => Head(timers') = Head(timers)
        /\ (last' # last /\ last'.op = "autopilot" /\ getActiveService = 0)
              => /\ last'.arg = Head(timers)
                 /\ last'.success = validateScale(Head(timers)).allowed
                 /\ validateScale(Head(timers)).allowed
                       => activeReplicas' = IntOf(Head(timers)) ]_vars

\* The action queued for 6 at the first alert has fired after the incident
\* was closed: the demand of 1000 was being served by more than 6 replicas,
\* which only the operator can have set, and replicas is 6 now.
C29_Witness ==
    /\ last.op = "autopilot"
    /\ last.success
    /\ last.arg = [kind |-> "fin", twice |-> 12]
    /\ activeReplicas = 6
    /\ incidentCount = 1
    /\ currentLoad = 1000
    /\ systemStatus = "HEALTHY"
    /\ Len(incidentReports) = 1

\* C30: every scale request whose policy outcome is not Admit, each Deny and
\* each Defer, emits at least one audit log record that carries both the
\* requested replicas value and the reason for the verdict.
C30_NonAdmitIsAudited ==
    [][ (GatedScaleDone /\ ~validateScale(last'.arg).allowed)
           => \E entry \in last'.log :
                 /\ entry.args = last'.arg
                 /\ entry.reason = validateScale(last'.arg).reason ]_vars

\* The same for the denials alone.
C30_DenialsAreAudited ==
    [][ (GatedScaleDone /\ BadReplicas(last'.arg))
           => \E entry \in last'.log :
                 /\ entry.level = "POLICY_VIOLATION"
                 /\ entry.args = last'.arg
                 /\ entry.reason = ViolatedRule(last'.arg) ]_vars

----------------------------------------------------------------------------
(* Claims about demand, rejected alerts, the limit and the approvals *)

\* C31: demand and incidentLevel are changed only by triggerAlert, every
\* other operation leaving both unchanged, and each triggerAlert raises
\* demand.
C31_DemandOnlyByAlert ==
    [][ (currentLoad' # currentLoad \/ incidentCount' # incidentCount)
           => /\ last'.op = "trigger-alert"
              /\ last'.success
              /\ currentLoad' > currentLoad ]_vars

\* C31, amended: demand and incidentLevel are changed only by triggerAlert,
\* which raises both, and by the simulation reset, which puts them back to
\* 100 and 0; monitor, getStatus, scale, rollback, approvePending,
\* setAutopilot and the autopilot timer leave both unchanged.
C31_DemandOnlyByAlertOrReset ==
    [][ (currentLoad' # currentLoad \/ incidentCount' # incidentCount)
           => \/ /\ last'.op = "trigger-alert"
                 /\ last'.success
                 /\ incidentCount' = incidentCount + 1
                 /\ currentLoad' > currentLoad
              \/ /\ last'.op = "reset"
                 /\ incidentCount' = 0
                 /\ currentLoad' = 100 ]_vars

\* The first alert after a reset: an incident of before the reset is in the
\* history, and demand is 1000 again.
C31_Witness ==
    /\ last.op = "trigger-alert"
    /\ last.success
    /\ incidentCount = 1
    /\ currentLoad = 1000
    /\ Len(incidentReports) = 1

\* C32: triggerAlert issued while health is CRITICAL is rejected with 'Alert
\* already active' and changes nothing: incidentLevel, demand, the alert
\* timestamp and the open incident id are unchanged and no autopilot action is
\* scheduled.
C32_AlertWhileCriticalRejected ==
    [][ (systemStatus = "CRITICAL" /\ TriggerAlert)
           => /\ ~last'.success
              /\ last'.reason = "Alert already active"
              /\ UNCHANGED <<ctl, timers, pendingApprovals, autoPilotMode>> ]_vars

\* A rejected alert with autopilot enabled, the action of the first alert
\* having fired already: nothing is queued.
C32_Witness ==
    /\ last.op = "trigger-alert"
    /\ ~last.success
    /\ systemStatus = "CRITICAL"
    /\ autoPilotMode
    /\ incidentCount = 1
    /\ activeReplicas = 6
    /\ timers = <<>>

\* C33: in simulation mode replicas is above the limit of 10 only when the
\* last write to it was an approval of a pending entry carrying exactly that
\* value: a step that leaves replicas above 10 is either such an approval or a
\* step that does not write replicas, and never a successful scale, autopilot
\* timer or rollback.
C33_AboveLimitOnlyByApproval ==
    [][ activeReplicas' > PolicyMaxReplicas
           => \/ /\ last'.op = "approve"
                 /\ last'.success
                 /\ last'.bypass
                 /\ last'.approvalId \in DOMAIN pendingApprovals
                 /\ IntOf(pendingApprovals[last'.approvalId]) = activeReplicas'
              \/ /\ activeReplicas' = activeReplicas
                 /\ ~(last'.op \in {"scale", "autopilot", "rollback"} /\ last'.success) ]_vars

\* The entry deferred for 15 replicas has been approved and executed.
C33_Witness ==
    /\ last.op = "approve"
    /\ last.success
    /\ last.arg = Fin(15)
    /\ activeReplicas = 15
    /\ pendingApprovals = <<>>
    /\ getActiveService = 0

\* C34: each pending approval is executed at most once: an approve request
\* for an id that another approve request is already executing (suspended on
\* the call to the service) fails with 'Approval not found'.
C34_ApprovalExecutedAtMostOnce ==
    [][ \A id \in 1..MaxPending :
           (/\ \E i \in 1..Len(inflight) :
                  /\ inflight[i].op = "scale"
                  /\ inflight[i].caller = "approve"
                  /\ inflight[i].approvalId = id
            /\ Approve(id))
           => /\ last'.op = "approve"
              /\ ~last'.success
              /\ last'.reason = "Approval not found" ]_vars

\* C35: an approve request removes its entry from the pending set whether or
\* not the bypassed scale succeeded: when the call to the service has failed
\* (the result reports success false), replicas is unchanged and the entry is
\* gone, so that it can be neither listed nor approved again.
C35_ApprovalConsumedOnFailure ==
    [][ Len(inflight') < Len(inflight)
           => \A i \in 1..MaxInFlight, reply \in Replies :
                 (/\ ScaleReply(i, reply)
                  /\ inflight[i].caller = "approve")
                    => /\ inflight[i].approvalId \notin DOMAIN pendingApprovals'
                       /\ last'.op = "approve"
                       /\ ~last'.success => activeReplicas' = activeReplicas ]_vars

\* The same for the calls that throw or answer a non-success HTTP status.
C35_ApprovalConsumedOnTransportFailure ==
    [][ Len(inflight') < Len(inflight)
           => \A i \in 1..MaxInFlight,
                 reply \in {r \in Replies : r.kind = "throw" \/ ~r.ok} :
                 (/\ ScaleReply(i, reply)
                  /\ inflight[i].caller = "approve")
                    => /\ inflight[i].approvalId \notin DOMAIN pendingApprovals'
                       /\ last'.op = "approve"
                       /\ ~last'.success
                       /\ activeReplicas' = activeReplicas ]_vars

\* C36: the 20% headroom is sufficient in simulation mode.  For every alert
\* that plans an autopilot target of at most 10, the cpu reading for the new
\* demand on that many replicas stays at or below 90 for every value of the
\* noise; the timer applies exactly the planned target and leaves the demand
\* alone; and a monitor evaluation whose reading is at or below 90 classifies
\* HEALTHY.
C36_HeadroomSufficient ==
    [][ /\ (systemStatus # "CRITICAL" /\ autoPilotMode /\ TriggerAlert)
           => LET target == IntOf(timers'[Len(timers')]) IN
              target <= PolicyMaxReplicas
                 => \A noise \in Noise :
                       NoisyCpu(currentLoad', target, noise) <= 10 * CriticalCpu
        /\ (AutopilotFire /\ last'.success)
           => /\ activeReplicas' = IntOf(Head(timers))
              /\ currentLoad' = currentLoad
        /\ \A noise \in Noise :
              (/\ MonitorSim(noise)
               /\ NoisyCpu(currentLoad, activeReplicas, noise) <= 10 * CriticalCpu)
                 => systemStatus' = "HEALTHY" ]_vars

\* The timer of a level 2 alert has applied its target of 9 replicas to a
\* demand of 1500, and every reading of the next evaluation is below 90.
C36_Witness ==
    /\ last.op = "autopilot"
    /\ last.success
    /\ incidentCount = 2
    /\ currentLoad = 1500
    /\ activeReplicas = 9
    /\ systemStatus = "CRITICAL"
    /\ \A noise \in Noise : NoisyCpu(currentLoad, activeReplicas, noise) <= 10 * CriticalCpu

\* C37: autopilot recovery is live in simulation mode: once an alert has
\* queued an autopilot action (its target is at most 10), with the timer and
\* the monitor weakly fair, status polls interleaved and no further alert,
\* scale, rollback or reset, health eventually becomes HEALTHY and the
\* incident opened by the alert is eventually closed into the history.
C37_AutopilotRecoveryLive ==
    (timers # <<>> /\ activeIncidentId # null)
       ~> (/\ systemStatus = "HEALTHY"
           /\ activeIncidentId = null
           /\ Len(incidentReports) = 1)

\* C38: the active remote target is always an approved one: after any
\* sequence of registrations, approvals, rejections and activations from an
\* empty registry, getActiveService returns either none or a registered
\* service whose status is 'approved'.
C38_ActiveServiceIsApproved ==
    \/ getActiveService = 0
    \/ /\ getActiveService \in 1..Len(services)
       /\ services[getActiveService].id = activeServiceId
       /\ services[getActiveService].status = "approved"

\* Two services were approved, the second was activated and the first, no
\* longer active, has been rejected: the second stays the active one.
C38_Witness ==
    /\ last.op = "reject-service"
    /\ Len(services) = 2
    /\ services[1].status = "rejected"
    /\ services[2].status = "approved"
    /\ services[1].id # services[2].id
    /\ getActiveService = 2

\* C39: the simulation reset returns the controller to its initial state
\* from any reachable state: afterwards health is HEALTHY, replicas 3, demand
\* 100, incidentLevel 0, the alert timestamp is absent, no approval is
\* pending, no incident is open, and no autopilot action scheduled earlier
\* will still change replicas (none that the policy would admit is queued).
C39_ResetRestoresInitialState ==
    [][ Reset
           => /\ systemStatus' = "HEALTHY"
              /\ activeReplicas' = BaselineReplicas
              /\ currentLoad' = NormalLoad
              /\ incidentCount' = 0
              /\ lastAlertTime' = null
              /\ pendingApprovals' = <<>>
              /\ activeIncidentId' = null
              /\ \A i \in 1..Len(timers') : ~validateScale(timers'[i]).allowed ]_vars

\* The part of it about the fields the reset assigns.
C39_ResetRestoresAssignedFields ==
    [][ Reset
           => /\ systemStatus' = "HEALTHY"
              /\ activeReplicas' = BaselineReplicas
              /\ currentLoad' = NormalLoad
              /\ incidentCount' = 0
              /\ lastAlertTime' = null
              /\ pendingApprovals' = <<>> ]_vars

====
